---- MODULE Spec2Model ----
(***************************************************************************)
(* A model of the MetaGPT UI real-time event pipeline:                      *)
(*   - the Event Channel, class SocketService of                            *)
(*     src/metagpt_ui/src/services/socket.ts;                               *)
(*   - the State Projector, component AgentNetwork of src/unnamed/part_001. *)
(*                                                                          *)
(* The channel is written as pure operators over a record s of the fields   *)
(* of SocketService, one operator per method or transport listener, so that *)
(* a method that calls another (the CONNECT_ERROR listener calls            *)
(* disconnect()) is the composition of the two operators.  The actions at   *)
(* the end of each part apply one operator to the current state.            *)
(***************************************************************************)
EXTENDS Integers, Sequences, FiniteSets, TLC

VARIABLES
    \* ---- SocketService fields (socket.ts 64-69)
    socket,             \* 0 for null, else the index in transports of the Socket held
    connected,          \* private connected
    reconnectAttempts,  \* private reconnectAttempts
    listeners,          \* Map<string, Set<Function>>: kind -> handlers in insertion order
    \* ---- the environment of the channel
    transports,         \* every Socket that io() has created, in creation order
    timers,             \* number of setTimeout callbacks of reconnect() not yet fired
    sent,               \* what socket.emit was given, in order
    \* ---- history variables of the channel
    lastOp,             \* the operation the last step performed
    out,                \* the dispatches (notifyListeners calls) of the last step
    threw,              \* the handlers that throw when called in the last step
    connectCalls,       \* number of connect() calls
    nullConnects,       \* number of connect() calls made while socket was null
    emitLog,            \* every emit() call: its payload and whether the channel was connected
    rowErrors,          \* connect_error events since the last transport connect
    rowNotes,           \* CONNECT_ERROR dispatches since the last transport connect
    lastFrom,           \* the Socket whose event the last step handled, 0 for none
    lastDelay,          \* the delay reconnect() last gave setTimeout, <<numerator, denominator>> in ms
    staleTimers,        \* the pending timers that were pending at the last disconnect() call
    \* ---- AgentNetwork state (part_001 11-15)
    agents,
    connections,
    messages,
    activeAgent,
    isConnected,
    \* ---- the environment and history of the projector
    fetches,            \* the fetchData() invocations in flight: the step each is at
    updLog,             \* agent_update payloads delivered, in arrival order
    msgLog,             \* agent_message / agent_thinking payloads delivered, in arrival order
    hoLog,              \* agent_handover payloads delivered, in arrival order
    bootSets,           \* number of setAgents/setMessages/setConnections calls of fetchData
    sessions,           \* number of CONNECT notifications the projector has received
    lastKind,           \* what last set activeAgent: "none", "message" or "handover"
    svgRef,             \* AgentVisualization's svgRef: the <svg> element and its client size
    drawn,              \* what AgentVisualization last rendered, with the props it was given
    activations,        \* for each mount of AgentNetwork, "active" or "released"
    priorErrors         \* connect_error events in the row that the last connect event of the
                        \* mounted AgentNetwork's Socket ended

chanVars == <<socket, connected, reconnectAttempts, listeners, transports, timers, sent>>
chanHist == <<lastOp, out, threw, connectCalls, nullConnects, emitLog, rowErrors, rowNotes,
              lastFrom, lastDelay, staleTimers>>
projVars == <<agents, connections, messages, activeAgent, isConnected>>
projHist == <<fetches, updLog, msgLog, hoLog, bootSets, sessions, lastKind>>
viewVars == <<svgRef, drawn>>
vars == <<chanVars, chanHist, projVars, projHist, viewVars, activations, priorErrors>>

(***************************************************************************)
(* Bounds of the model.                                                     *)
(***************************************************************************)
MaxConnectCalls == 3
MaxEmits == 2

(***************************************************************************)
(* Program constants.                                                       *)
(***************************************************************************)
maxReconnectAttempts == 5
reconnectDelay == 2000
reconnectionDelayMax == 10000

\* enum SocketEvent
SocketEvent ==
    {"connect", "disconnect", "connect_error", "agent_update", "agent_message",
     "agent_thinking", "agent_handover", "execution_started",
     "execution_completed", "execution_error", "system_message"}

\* The kinds the channel forwards unchanged from the transport (socket.ts 124-154).
ForwardedEvents == SocketEvent \ {"connect", "disconnect", "connect_error"}

\* The reasons the transport gives a disconnect event.  "io client disconnect"
\* is given only inside socket.disconnect().
ServerDisconnect == "io server disconnect"
ClientDisconnect == "io client disconnect"
DropReasons == {ServerDisconnect, "transport close", "ping timeout"}

\* Inputs: the subscribers' callbacks, the kinds they subscribe to, payloads.
Handlers == {"h1", "h2"}
SubKinds == {"connect_error", "agent_message"}
EventKinds == {"agent_message", "system_message"}
Payloads == {"p1", "p2"}
EventData == {"p1"}

Null == 0

(***************************************************************************)
(* The transport: socket.io-client, as the channel configures it.           *)
(* A Socket is opening (an attempt is in progress or the Manager has one    *)
(* scheduled), open, or closed (closed by either side, or the Manager gave  *)
(* up).  budget is the number of attempts the Manager will still make       *)
(* before it gives up: io() and socket.connect() open once and then retry   *)
(* reconnectionAttempts times; after a dropped connection the Manager only  *)
(* retries.                                                                 *)
(***************************************************************************)
io == [st |-> "opening", budget |-> maxReconnectAttempts + 1]

\* socket.connect() of the Socket held: reopens a closed Socket, and does
\* nothing to one that is opening or open.
socketConnect(s) ==
    IF s.socket = Null THEN s
    ELSE IF s.transports[s.socket].st = "closed"
         THEN [s EXCEPT !.transports[s.socket] = io]
         ELSE s

\* What the Manager does with a failed attempt: one attempt less, closed at none.
attemptFailed(t) ==
    IF t.budget <= 1 THEN [st |-> "closed", budget |-> 0]
    ELSE [t EXCEPT !.budget = @ - 1]

\* What the transport does when an open connection ends: the server's close
\* closes the Manager, any other reason makes it retry by itself.
dropped(reason) ==
    IF reason = ServerDisconnect THEN [st |-> "closed", budget |-> 0]
    ELSE [st |-> "opening", budget |-> maxReconnectAttempts]

(***************************************************************************)
(* notifyListeners (socket.ts 194-204).  T is the set of handlers that      *)
(* throw when called.  forEach calls the handlers of the kind in insertion  *)
(* order, each inside its own try/catch; acc collects the call.             *)
(***************************************************************************)
RECURSIVE forEach(_, _, _, _)
forEach_AbortOnThrow(hs, i, T, acc) ==
    IF i > Len(hs) THEN acc
    ELSE LET called == [acc EXCEPT !.invoked = Append(@, hs[i])]
         IN IF hs[i] \in T
            THEN [called EXCEPT !.raised = TRUE]
            ELSE forEach(hs, i + 1, T, called)

forEach(hs, i, T, acc) ==
    IF i > Len(hs) THEN acc
    ELSE LET called == [acc EXCEPT !.invoked = Append(@, hs[i])]
         IN IF hs[i] \in T
            THEN forEach(hs, i + 1, T, [called EXCEPT !.caught = Append(@, hs[i])])
            ELSE forEach(hs, i + 1, T, called)

notifyListeners(s, event, data, T) ==
    LET call == forEach(s.listeners[event], 1, T,
                        [kind |-> event, data |-> data, invoked |-> <<>>,
                         caught |-> <<>>, raised |-> FALSE])
    IN [s EXCEPT !.out = Append(@, call), !.raised = call.raised]

(***************************************************************************)
(* The methods and transport listeners of SocketService.  A field raised    *)
(* of s says that an exception is propagating: the statements after the     *)
(* call that raised it do not run.                                          *)
(***************************************************************************)
\* Math.pow for a natural exponent
RECURSIVE Pow(_, _)
Pow(b, k) == IF k = 0 THEN 1 ELSE b * Pow(b, k - 1)

\* this.reconnectDelay * Math.pow(1.5, this.reconnectAttempts) (socket.ts 166),
\* the exact value as <<numerator, denominator>>: 1.5^k is 3^k / 2^k
backoffDelay_NextPower(attempts) ==
    <<reconnectDelay * Pow(3, attempts + 1), Pow(2, attempts + 1)>>

backoffDelay(attempts) == <<reconnectDelay * Pow(3, attempts), Pow(2, attempts)>>

\* reconnect() (socket.ts 158-167)
reconnect(s) ==
    IF s.socket = Null \/ s.connected THEN s
    ELSE [s EXCEPT !.timers = @ + 1, !.delay = backoffDelay(s.reconnectAttempts)]

\* the DISCONNECT listener (socket.ts 99-109)
onDisconnect_AnyReason(s, reason, T) ==
    LET a == [s EXCEPT !.connected = FALSE]
        b == notifyListeners(a, "disconnect", reason, T)
    IN IF b.raised THEN b ELSE reconnect(b)

onDisconnect_ClearHandle(s, reason, T) ==
    LET a == [s EXCEPT !.connected = FALSE]
        b == notifyListeners(a, "disconnect", reason, T)
    IN IF b.raised THEN b
       ELSE IF reason = ServerDisconnect THEN [b EXCEPT !.socket = Null] ELSE b

onDisconnect_CountAttempt(s, reason, T) ==
    LET a == [s EXCEPT !.connected = FALSE]
        b == notifyListeners(a, "disconnect", reason, T)
    IN IF b.raised THEN b
       ELSE IF reason = ServerDisconnect
            THEN reconnect([b EXCEPT !.reconnectAttempts = @ + 1])
            ELSE b

onDisconnect(s, reason, T) ==
    LET a == [s EXCEPT !.connected = FALSE]
        b == notifyListeners(a, "disconnect", reason, T)
    IN IF b.raised THEN b
       ELSE IF reason = ServerDisconnect THEN reconnect(b) ELSE b

\* socket.disconnect() of the Socket held: an open Socket emits its disconnect
\* event, with the client's reason, before the call returns.
socketDisconnect(s, T) ==
    LET wasOpen == s.transports[s.socket].st = "open"
        a == [s EXCEPT !.transports[s.socket] = [st |-> "closed", budget |-> 0]]
    IN IF wasOpen THEN onDisconnect(a, ClientDisconnect, T) ELSE a

\* disconnect() (socket.ts 170-176)
disconnect_KeepHandle(s, T) ==
    IF s.socket # Null
    THEN LET a == socketDisconnect(s, T)
         IN IF a.raised THEN a
            ELSE [a EXCEPT !.connected = FALSE]
    ELSE s

disconnect_NoTeardown(s, T) ==
    IF s.socket # Null
    THEN [s EXCEPT !.socket = Null, !.connected = FALSE]
    ELSE s

disconnect_HandleOnly(s, T) ==
    IF s.socket # Null
    THEN [s EXCEPT !.socket = Null]
    ELSE s

disconnect(s, T) ==
    IF s.socket # Null
    THEN LET a == socketDisconnect(s, T)
         IN IF a.raised THEN a
            ELSE [a EXCEPT !.socket = Null, !.connected = FALSE]
    ELSE s

\* connect() (socket.ts 78-155)
connect_NoGuard(s) ==
    [s EXCEPT !.transports = Append(@, io), !.socket = Len(s.transports) + 1]

connect_RefuseExhausted(s) ==
    IF s.socket # Null \/ s.reconnectAttempts > maxReconnectAttempts THEN s
    ELSE [s EXCEPT !.transports = Append(@, io), !.socket = Len(s.transports) + 1]

connect_ResetAttempts(s) ==
    IF s.socket # Null THEN s
    ELSE [s EXCEPT !.transports = Append(@, io), !.socket = Len(s.transports) + 1,
                   !.reconnectAttempts = 0]

connect(s) ==
    IF s.socket # Null THEN s
    ELSE [s EXCEPT !.transports = Append(@, io), !.socket = Len(s.transports) + 1]

\* the CONNECT listener (socket.ts 92-97)
onConnect_NoReset(s, T) ==
    LET a == [s EXCEPT !.connected = TRUE]
    IN notifyListeners(a, "connect", "null", T)

onConnect(s, T) ==
    LET a == [s EXCEPT !.connected = TRUE, !.reconnectAttempts = 0]
    IN notifyListeners(a, "connect", "null", T)

\* the CONNECT_ERROR listener (socket.ts 111-121)
onConnectError_NoGiveUp(s, error, T) ==
    LET a == notifyListeners(s, "connect_error", error, T)
    IN IF a.raised THEN a ELSE [a EXCEPT !.reconnectAttempts = @ + 1]

onConnectError_AtMax(s, error, T) ==
    LET a == notifyListeners(s, "connect_error", error, T)
    IN IF a.raised THEN a
       ELSE LET b == [a EXCEPT !.reconnectAttempts = @ + 1]
            IN IF b.reconnectAttempts >= maxReconnectAttempts
               THEN disconnect(b, T)
               ELSE b

onConnectError_NoCount(s, error, T) ==
    LET a == notifyListeners(s, "connect_error", error, T)
    IN IF a.raised THEN a
       ELSE IF a.reconnectAttempts > maxReconnectAttempts
            THEN disconnect(a, T)
            ELSE a

onConnectError(s, error, T) ==
    LET a == notifyListeners(s, "connect_error", error, T)
    IN IF a.raised THEN a
       ELSE LET b == [a EXCEPT !.reconnectAttempts = @ + 1]
            IN IF b.reconnectAttempts > maxReconnectAttempts
               THEN disconnect(b, T)
               ELSE b

\* the listeners of the forwarded kinds (socket.ts 124-154)
onEvent(s, event, data, T) == notifyListeners(s, event, data, T)

\* the callback reconnect() gives setTimeout (socket.ts 163-166)
onTimer(s) == socketConnect([s EXCEPT !.timers = @ - 1])

\* on() (socket.ts 179-184): Set.add keeps the place of a member it already has
on(s, event, callback) ==
    IF \E i \in 1..Len(s.listeners[event]) : s.listeners[event][i] = callback
    THEN s
    ELSE [s EXCEPT !.listeners[event] = Append(@, callback)]

\* off() (socket.ts 187-191)
off_ClearKind(s, event, callback) == [s EXCEPT !.listeners[event] = <<>>]

off(s, event, callback) ==
    [s EXCEPT !.listeners[event] = SelectSeq(@, LAMBDA h : h # callback)]

\* emit() (socket.ts 207-213)
emit_NoConnectedCheck(s, event, data) ==
    IF s.socket # Null
    THEN [s EXCEPT !.sent = Append(@, <<event, data>>)]
    ELSE s

emit(s, event, data) ==
    IF s.socket # Null /\ s.connected
    THEN [s EXCEPT !.sent = Append(@, <<event, data>>)]
    ELSE s

\* isConnected() (socket.ts 216-218)
isConnectedFn(s) == s.connected

(***************************************************************************)
(* The channel as a state machine.  Ch is the channel's state as the        *)
(* operators above take it; Step installs the state an operator returns     *)
(* and records what the step did.                                           *)
(***************************************************************************)
Ch ==
    [socket |-> socket, connected |-> connected,
     reconnectAttempts |-> reconnectAttempts, listeners |-> listeners,
     transports |-> transports, timers |-> timers, sent |-> sent,
     delay |-> lastDelay, out |-> <<>>, raised |-> FALSE]

\* the handlers a step called
Called(calls) == {h \in Handlers : \E i \in 1..Len(calls) :
                     \E j \in 1..Len(calls[i].invoked) : calls[i].invoked[j] = h}

\* the number of dispatches of a kind among the calls of a step
Dispatches(calls, kind) == Cardinality({i \in 1..Len(calls) : calls[i].kind = kind})

\* from is the Socket whose event the step handles, 0 when it handles none
StepChannel(s, op, T, from) ==
    /\ socket' = s.socket
    /\ connected' = s.connected
    /\ reconnectAttempts' = s.reconnectAttempts
    /\ listeners' = s.listeners
    /\ transports' = s.transports
    /\ timers' = s.timers
    /\ sent' = s.sent
    /\ lastOp' = op
    /\ out' = s.out
    /\ threw' = T \cap Called(s.out)
    /\ rowErrors' = IF op = "t_connect" THEN 0
                    ELSE IF op = "t_connect_error" THEN rowErrors + 1 ELSE rowErrors
    /\ rowNotes' = IF op = "t_connect" THEN 0
                   ELSE rowNotes + Dispatches(s.out, "connect_error")
    /\ lastFrom' = from
    /\ lastDelay' = s.delay

\* a step of the channel that no component of the model reacts to
StepFrom(s, op, T, from) ==
    /\ StepChannel(s, op, T, from)
    /\ UNCHANGED <<projVars, projHist, viewVars, priorErrors>>

\* a step that handles no transport event and fires no timer; disconnect()
\* leaves the pending timers pending
Step(s, op, T) ==
    /\ StepFrom(s, op, T, 0)
    /\ staleTimers' = IF op \in {"disconnect", "unmount"} THEN s.timers
                      ELSE staleTimers

\* the Socket held is in transport state st
Held(st) == socket # Null /\ transports[socket].st = st

\* the Sockets in transport state st: each has the listeners connect() gave
\* it, which act on the channel whichever Socket is held
InState(st) == {i \in 1..Len(transports) : transports[i].st = st}

InitChannel ==
    /\ socket = Null
    /\ connected = FALSE
    /\ reconnectAttempts = 0
    /\ listeners = [k \in SocketEvent |-> <<>>]
    /\ transports = <<>>
    /\ timers = 0
    /\ sent = <<>>
    /\ lastOp = "new"
    /\ out = <<>>
    /\ threw = {}
    /\ connectCalls = 0
    /\ nullConnects = 0
    /\ emitLog = <<>>
    /\ rowErrors = 0
    /\ rowNotes = 0
    /\ lastFrom = 0
    /\ lastDelay = <<0, 1>>
    /\ staleTimers = 0
    /\ activations = <<>>
    /\ priorErrors = 0

\* useRef<SVGSVGElement>(null) before the <svg> is mounted
\* (AgentVisualization.tsx 30)
Unattached == [attached |-> FALSE, clientWidth |-> 0, clientHeight |-> 0]

\* AgentVisualization has not rendered
NotRendered == [rendered |-> FALSE]

\* the projector before it is mounted
InitProjector ==
    /\ agents = <<>>
    /\ connections = <<>>
    /\ messages = <<>>
    /\ activeAgent = "undefined"
    /\ isConnected = FALSE
    /\ fetches = <<>>
    /\ updLog = <<>>
    /\ msgLog = <<>>
    /\ hoLog = <<>>
    /\ bootSets = [what \in {"agents", "messages", "handovers"} |-> 0]
    /\ sessions = 0
    /\ lastKind = "none"
    /\ svgRef = Unattached
    /\ drawn = NotRendered

\* ---- calls of the channel's public methods
Connect ==
    /\ connectCalls < MaxConnectCalls
    /\ Step(connect(Ch), "connect", {})
    /\ connectCalls' = connectCalls + 1
    /\ nullConnects' = IF socket = Null THEN nullConnects + 1 ELSE nullConnects
    /\ UNCHANGED <<emitLog, activations, priorErrors>>

Disconnect ==
    /\ \E T \in SUBSET Handlers : Step(disconnect(Ch, T), "disconnect", T)
    /\ UNCHANGED <<connectCalls, nullConnects, emitLog, activations, priorErrors>>

On ==
    /\ \E k \in SubKinds, h \in Handlers : Step(on(Ch, k, h), "on", {})
    /\ UNCHANGED <<connectCalls, nullConnects, emitLog, activations, priorErrors>>

Off ==
    /\ \E k \in SubKinds, h \in Handlers : Step(off(Ch, k, h), "off", {})
    /\ UNCHANGED <<connectCalls, nullConnects, emitLog, activations, priorErrors>>

Emit ==
    /\ Len(emitLog) < MaxEmits
    /\ \E d \in Payloads :
          /\ Step(emit(Ch, "command", d), "emit", {})
          /\ emitLog' = Append(emitLog, [data |-> d, live |-> connected])
    /\ UNCHANGED <<connectCalls, nullConnects, activations, priorErrors>>

\* ---- events of a Socket, each running the listener connect() gave it
TConnect ==
    /\ \E i \in InState("opening"), T \in SUBSET Handlers :
          StepFrom(onConnect([Ch EXCEPT !.transports[i].st = "open"], T),
                   "t_connect", T, i)
    /\ UNCHANGED <<connectCalls, nullConnects, emitLog, staleTimers, activations, priorErrors>>

TDisconnect ==
    /\ \E i \in InState("open"), reason \in DropReasons, T \in SUBSET Handlers :
          StepFrom(onDisconnect([Ch EXCEPT !.transports[i] = dropped(reason)],
                                reason, T),
                   "t_disconnect", T, i)
    /\ UNCHANGED <<connectCalls, nullConnects, emitLog, staleTimers, activations, priorErrors>>

TConnectError ==
    /\ \E i \in InState("opening"), T \in SUBSET Handlers :
          StepFrom(onConnectError([Ch EXCEPT !.transports[i] = attemptFailed(@)],
                                  "error", T),
                   "t_connect_error", T, i)
    /\ UNCHANGED <<connectCalls, nullConnects, emitLog, staleTimers, activations, priorErrors>>

TEvent ==
    /\ \E i \in InState("open"), k \in EventKinds, d \in EventData,
          T \in SUBSET Handlers :
          StepFrom(onEvent(Ch, k, d, T), "t_event", T, i)
    /\ UNCHANGED <<connectCalls, nullConnects, emitLog, staleTimers, activations, priorErrors>>

\* a pending timer fires: one that was pending at the last disconnect(), or
\* one scheduled since
TimerFire ==
    /\ timers > 0
    /\ StepFrom(onTimer(Ch), "timer", {}, 0)
    /\ \E stale \in BOOLEAN :
          /\ IF stale THEN staleTimers > 0 ELSE timers > staleTimers
          /\ staleTimers' = IF stale THEN staleTimers - 1 ELSE staleTimers
    /\ UNCHANGED <<connectCalls, nullConnects, emitLog, activations, priorErrors>>

NextChannel ==
    \/ Connect
    \/ Disconnect
    \/ On
    \/ Off
    \/ TConnect
    \/ TDisconnect
    \/ TConnectError
    \/ TEvent
    \/ TimerFire

Init == InitChannel /\ InitProjector

\* The channel with its subscribers: the connection's life and the dispatch.
Spec == Init /\ [][NextChannel]_vars

\* The channel with its outbound side: the connection's life and emit(), no
\* subscriber registered.
NextEmit ==
    \/ Connect
    \/ Disconnect
    \/ Emit
    \/ TConnect
    \/ TDisconnect
    \/ TConnectError
    \/ TimerFire

SpecEmit == Init /\ [][NextEmit]_vars

(***************************************************************************)
(* The channel with AgentNetwork as its subscriber: the effect that runs    *)
(* when the component mounts and the cleanup that runs when it unmounts     *)
(* (part_001 18-71).  Every mount makes new callbacks; the cleanup gives    *)
(* off() arrow functions made in place, which no one registered.            *)
(***************************************************************************)
MaxMounts == 2

\* the kinds the effect subscribes to, in its order
MountKinds ==
    <<"connect", "disconnect", "agent_update", "agent_message", "agent_thinking",
      "agent_handover">>

\* the callbacks of the first mount, of the second, and so on
MountHandlers == <<"m1", "m2", "m3", "m4">>

\* an arrow function made where it is used
FreshCallback == "fresh"

RECURSIVE onEach(_, _, _, _)
onEach(s, kinds, i, callback) ==
    IF i > Len(kinds) THEN s
    ELSE onEach(on(s, kinds[i], callback), kinds, i + 1, callback)

RECURSIVE offEach(_, _, _, _)
offEach(s, kinds, i, callback) ==
    IF i > Len(kinds) THEN s
    ELSE offEach(off(s, kinds[i], callback), kinds, i + 1, callback)

\* the effect (part_001 18-59)
mountEffect(s, callback) == onEach(connect(s), MountKinds, 1, callback)

\* its cleanup (part_001 62-70)
cleanup(s, T) == disconnect(offEach(s, MountKinds, 1, FreshCallback), T)

Mounted == activations # <<>> /\ activations[Len(activations)] = "active"

Mount ==
    /\ ~Mounted
    /\ Len(activations) < MaxMounts
    /\ Step(mountEffect(Ch, MountHandlers[Len(activations) + 1]), "mount", {})
    /\ activations' = Append(activations, "active")
    /\ connectCalls' = connectCalls + 1
    /\ nullConnects' = IF socket = Null THEN nullConnects + 1 ELSE nullConnects
    /\ UNCHANGED emitLog

Unmount ==
    /\ Mounted
    /\ Step(cleanup(Ch, {}), "unmount", {})
    /\ activations' = [activations EXCEPT ![Len(activations)] = "released"]
    /\ UNCHANGED <<connectCalls, nullConnects, emitLog>>

NextMount ==
    \/ Mount
    \/ Unmount
    \/ TConnect
    \/ TDisconnect
    \/ TConnectError
    \/ TEvent
    \/ TimerFire

SpecMount == Init /\ [][NextMount]_vars

(***************************************************************************)
(* The channel when no attempt succeeds.  It starts disconnected, in any    *)
(* state an earlier session can have left it in: disconnect() and connect() *)
(* keep reconnectAttempts, and a timer of reconnect() outlives              *)
(* disconnect().  An attempt in progress ends (the transport's timeout      *)
(* makes a connect_error of one that hangs), hence the fairness.            *)
(***************************************************************************)
MaxStaleTimers == 1

InitAllFail ==
    /\ socket = Null
    /\ connected = FALSE
    /\ reconnectAttempts \in 0..(maxReconnectAttempts + 1)
    /\ listeners = [k \in SocketEvent |-> <<>>]
    /\ transports = <<>>
    /\ timers \in 0..MaxStaleTimers
    /\ sent = <<>>
    /\ lastOp = "new"
    /\ out = <<>>
    /\ threw = {}
    /\ connectCalls = 0
    /\ nullConnects = 0
    /\ emitLog = <<>>
    /\ rowErrors = reconnectAttempts
    /\ rowNotes = reconnectAttempts
    /\ lastFrom = 0
    /\ lastDelay = IF timers = 0 THEN <<0, 1>> ELSE backoffDelay(0)
    /\ staleTimers = timers
    /\ activations = <<>>
    /\ priorErrors = 0
    /\ InitProjector

NextAllFail ==
    \/ Connect
    \/ Disconnect
    \/ TConnectError
    \/ TimerFire

SpecAllFail == InitAllFail /\ [][NextAllFail]_vars /\ WF_vars(TConnectError)

(***************************************************************************)
(* The State Projector: component AgentNetwork (part_001).  Its handlers    *)
(* are the callbacks it gives socketService.on; the channel calls them      *)
(* from notifyListeners with the payload of the transport's event.          *)
(***************************************************************************)
MaxEvents == 3
MaxSessions == 1

\* Inputs.  An Agent has an optional llm_type, a message an owning agent and
\* a type, a handover its two ends; "undefined" stands for an absent field.
Undefined == "undefined"
AgentPayloads ==
    {[id |-> "A", status |-> "idle", llm_type |-> "openai"],
     [id |-> "A", status |-> "thinking", llm_type |-> Undefined],
     [id |-> "B", status |-> "idle", llm_type |-> Undefined]}
MessagePayloads ==
    {[id |-> "m1", agent_id |-> "A", type |-> "message"],
     [id |-> "m2", agent_id |-> "B", type |-> "thinking"]}
HandoverPayloads ==
    {[from |-> "A", to |-> "B"], [from |-> "B", to |-> "Z"]}

\* What the bootstrap queries answer when the body has the field.
AgentsResponses ==
    {<<[id |-> "B", status |-> "idle", llm_type |-> Undefined]>>,
     <<[id |-> "A", status |-> "idle", llm_type |-> "openai"],
       [id |-> "B", status |-> "idle", llm_type |-> Undefined]>>}
MessagesResponses ==
    {<<>>, <<[id |-> "m1", agent_id |-> "A", type |-> "message"]>>}
HandoversResponses ==
    {<<>>, <<[from |-> "A", to |-> "B"]>>}
\* How a bootstrap query ends: "ok" with the field, "missing" for a body
\* without the field, "fail" for a fetch or a json() that throws.
Answers == {"ok", "missing", "fail"}

\* prev.findIndex(a => a.id === data.id), 0 for -1
findIndex(prev, id) ==
    IF \E i \in 1..Len(prev) : prev[i].id = id
    THEN CHOOSE i \in 1..Len(prev) :
            /\ prev[i].id = id
            /\ \A j \in 1..(i - 1) : prev[j].id # id
    ELSE 0

\* the updater of the AGENT_UPDATE handler (part_001 33-44)
onAgentUpdate_Merge(prev, data) ==
    LET existing == findIndex(prev, data.id)
    IN IF existing > 0
       THEN [prev EXCEPT ![existing] =
                [id |-> data.id, status |-> data.status,
                 llm_type |-> IF data.llm_type = Undefined
                              THEN @.llm_type ELSE data.llm_type]]
       ELSE Append(prev, data)

onAgentUpdate_MoveToEnd(prev, data) ==
    Append(SelectSeq(prev, LAMBDA a : a.id # data.id), data)

onAgentUpdate(prev, data) ==
    LET existing == findIndex(prev, data.id)
    IN IF existing > 0
       THEN [prev EXCEPT ![existing] = data]
       ELSE Append(prev, data)

\* the updater of the AGENT_MESSAGE and AGENT_THINKING handlers (part_001 46-54)
onAgentMessage_Dedup(prev, data) ==
    IF \E i \in 1..Len(prev) : prev[i].id = data.id THEN prev ELSE Append(prev, data)

onAgentMessage(prev, data) == Append(prev, data)

\* the updater of the AGENT_HANDOVER handler (part_001 56-59)
onAgentHandover(prev, data) == Append(prev, data)

\* setActiveAgent(data.agent_id) of the AGENT_MESSAGE and AGENT_THINKING
\* handlers (part_001 48, 53)
messageActive(data) == data.agent_id

\* setActiveAgent(data.to) of the AGENT_HANDOVER handler (part_001 58)
handoverActive_From(data) == data.from

handoverActive(data) == data.to

\* events delivered so far
Events == Len(updLog) + Len(msgLog) + Len(hoLog)

\* ---- the channel dispatches to the projector's handlers
\* CONNECT (part_001 23-26); the effect of part_001 74-105 runs fetchData()
\* when isConnected has become true
PConnect ==
    /\ ~isConnected
    /\ sessions < MaxSessions
    /\ isConnected' = TRUE
    /\ sessions' = sessions + 1
    /\ fetches' = Append(fetches, "agents")
    /\ UNCHANGED <<agents, connections, messages, activeAgent, updLog, msgLog, hoLog,
                   bootSets, lastKind, chanVars, chanHist, viewVars,
                   activations, priorErrors>>

\* DISCONNECT (part_001 28-31)
PDisconnect ==
    /\ isConnected
    /\ isConnected' = FALSE
    /\ UNCHANGED <<agents, connections, messages, activeAgent, projHist, chanVars, chanHist, viewVars,
                   activations, priorErrors>>

AgentUpdate ==
    /\ isConnected
    /\ Events < MaxEvents
    /\ \E data \in AgentPayloads :
          /\ agents' = onAgentUpdate(agents, data)
          /\ updLog' = Append(updLog, data)
    /\ UNCHANGED <<connections, messages, activeAgent, isConnected, fetches, msgLog,
                   hoLog, bootSets, sessions, lastKind, chanVars, chanHist, viewVars,
                   activations, priorErrors>>

\* AGENT_MESSAGE and AGENT_THINKING have the same handler body
AgentMessage ==
    /\ isConnected
    /\ Events < MaxEvents
    /\ \E data \in MessagePayloads :
          /\ messages' = onAgentMessage(messages, data)
          /\ activeAgent' = messageActive(data)
          /\ msgLog' = Append(msgLog, data)
    /\ lastKind' = "message"
    /\ UNCHANGED <<agents, connections, isConnected, fetches, updLog, hoLog, bootSets,
                   sessions, chanVars, chanHist, viewVars,
                   activations, priorErrors>>

AgentHandover ==
    /\ isConnected
    /\ Events < MaxEvents
    /\ \E data \in HandoverPayloads :
          /\ connections' = onAgentHandover(connections, data)
          /\ activeAgent' = handoverActive(data)
          /\ hoLog' = Append(hoLog, data)
    /\ lastKind' = "handover"
    /\ UNCHANGED <<agents, messages, isConnected, fetches, updLog, msgLog, bootSets,
                   sessions, chanVars, chanHist, viewVars,
                   activations, priorErrors>>

\* ---- fetchData (part_001 75-100): one step for each of its three queries;
\* a query that throws ends the invocation in its catch
Advance(f, to) == fetches' = [fetches EXCEPT ![f] = to]
Count(what) == bootSets' = [bootSets EXCEPT ![what] = @ + 1]

FetchAgents ==
    \E f \in 1..Len(fetches) :
       /\ fetches[f] = "agents"
       /\ \E answer \in Answers :
             IF answer = "fail"
             THEN Advance(f, "failed") /\ UNCHANGED <<agents, bootSets>>
             ELSE IF answer = "missing"
                  THEN Advance(f, "messages") /\ UNCHANGED <<agents, bootSets>>
                  ELSE \E r \in AgentsResponses :
                          Advance(f, "messages") /\ agents' = r /\ Count("agents")
       /\ UNCHANGED <<connections, messages, activeAgent, isConnected, updLog, msgLog,
                      hoLog, sessions, lastKind, chanVars, chanHist, viewVars,
                   activations, priorErrors>>

FetchMessages ==
    \E f \in 1..Len(fetches) :
       /\ fetches[f] = "messages"
       /\ \E answer \in Answers :
             IF answer = "fail"
             THEN Advance(f, "failed") /\ UNCHANGED <<messages, bootSets>>
             ELSE IF answer = "missing"
                  THEN Advance(f, "handovers") /\ UNCHANGED <<messages, bootSets>>
                  ELSE \E r \in MessagesResponses :
                          Advance(f, "handovers") /\ messages' = r /\ Count("messages")
       /\ UNCHANGED <<agents, connections, activeAgent, isConnected, updLog, msgLog,
                      hoLog, sessions, lastKind, chanVars, chanHist, viewVars,
                   activations, priorErrors>>

FetchHandovers ==
    \E f \in 1..Len(fetches) :
       /\ fetches[f] = "handovers"
       /\ \E answer \in Answers :
             IF answer = "fail"
             THEN Advance(f, "failed") /\ UNCHANGED <<connections, bootSets>>
             ELSE IF answer = "missing"
                  THEN Advance(f, "done") /\ UNCHANGED <<connections, bootSets>>
                  ELSE \E r \in HandoversResponses :
                          Advance(f, "done") /\ connections' = r /\ Count("handovers")
       /\ UNCHANGED <<agents, messages, activeAgent, isConnected, updLog, msgLog,
                      hoLog, sessions, lastKind, chanVars, chanHist, viewVars,
                   activations, priorErrors>>

NextProjector ==
    \/ PConnect
    \/ PDisconnect
    \/ AgentUpdate
    \/ AgentMessage
    \/ AgentHandover
    \/ FetchAgents
    \/ FetchMessages
    \/ FetchHandovers

\* The projector mounted on a channel that is about to connect.
SpecProjector == Init /\ [][NextProjector]_vars

(***************************************************************************)
(* AgentNetwork mounted on the channel: the channel's dispatches call the   *)
(* callbacks the mount registered, which set the component's state, and     *)
(* the effect of part_001 74-105 runs after the render that follows.  The   *)
(* histories of SpecProjector are not kept here.  SpecSession is one mount   *)
(* with every kind of event arriving.                                       *)
(***************************************************************************)
MaxFetches == 2

\* the state of the component
Proj ==
    [agents |-> agents, connections |-> connections, messages |-> messages,
     activeAgent |-> activeAgent, isConnected |-> isConnected]

\* useState's initial values (part_001 11-15)
InitialProj ==
    [agents |-> <<>>, connections |-> <<>>, messages |-> <<>>,
     activeAgent |-> Undefined, isConnected |-> FALSE]

\* the callback the effect registers for a kind (part_001 23-59); it
\* registers none for the other kinds
callback_UpdateActivates(p, kind, data) ==
    CASE kind = "connect" -> [p EXCEPT !.isConnected = TRUE]
      [] kind = "disconnect" -> [p EXCEPT !.isConnected = FALSE]
      [] kind = "agent_update" ->
            [p EXCEPT !.agents = onAgentUpdate(@, data), !.activeAgent = data.id]
      [] kind \in {"agent_message", "agent_thinking"} ->
            [p EXCEPT !.messages = onAgentMessage(@, data),
                      !.activeAgent = messageActive(data)]
      [] kind = "agent_handover" ->
            [p EXCEPT !.connections = onAgentHandover(@, data),
                      !.activeAgent = handoverActive(data)]
      [] OTHER -> p

callback_KeepFlag(p, kind, data) ==
    CASE kind = "connect" -> [p EXCEPT !.isConnected = TRUE]
      [] kind = "disconnect" -> p
      [] kind = "agent_update" -> [p EXCEPT !.agents = onAgentUpdate(@, data)]
      [] kind \in {"agent_message", "agent_thinking"} ->
            [p EXCEPT !.messages = onAgentMessage(@, data),
                      !.activeAgent = messageActive(data)]
      [] kind = "agent_handover" ->
            [p EXCEPT !.connections = onAgentHandover(@, data),
                      !.activeAgent = handoverActive(data)]
      [] OTHER -> p

callback(p, kind, data) ==
    CASE kind = "connect" -> [p EXCEPT !.isConnected = TRUE]
      [] kind = "disconnect" -> [p EXCEPT !.isConnected = FALSE]
      [] kind = "agent_update" -> [p EXCEPT !.agents = onAgentUpdate(@, data)]
      [] kind \in {"agent_message", "agent_thinking"} ->
            [p EXCEPT !.messages = onAgentMessage(@, data),
                      !.activeAgent = messageActive(data)]
      [] kind = "agent_handover" ->
            [p EXCEPT !.connections = onAgentHandover(@, data),
                      !.activeAgent = handoverActive(data)]
      [] OTHER -> p

\* what the dispatches of a step do to the component whose callbacks are me:
\* notifyListeners calls each callback with the data (socket.ts 196-198)
RECURSIVE deliver(_, _, _, _)
deliver(p, calls, i, me) ==
    IF i > Len(calls) THEN p
    ELSE LET called == \E j \in 1..Len(calls[i].invoked) : calls[i].invoked[j] = me
         IN deliver(IF called THEN callback(p, calls[i].kind, calls[i].data) ELSE p,
                    calls, i + 1, me)

\* the effect with dependency [isConnected] (part_001 74-105): it runs after
\* the first render and after a render in which isConnected has changed, and
\* calls fetchData() if isConnected
bootstrapEffect_AnyChange(run, flag, fs) ==
    IF run THEN Append(fs, "agents") ELSE fs

bootstrapEffect(run, flag, fs) ==
    IF run /\ flag THEN Append(fs, "agents") ELSE fs

\* the callbacks of the component that is mounted
Me == IF Mounted THEN MountHandlers[Len(activations)] ELSE "none"

\* the payloads of the events of a kind
SessionData(kind) ==
    CASE kind = "agent_update" -> AgentPayloads
      [] kind = "agent_message" -> {[id |-> "m1", agent_id |-> "A", type |-> "message"]}
      [] kind = "agent_thinking" -> {[id |-> "m2", agent_id |-> "B", type |-> "thinking"]}
      [] kind = "agent_handover" -> {[from |-> "A", to |-> "B"]}
      [] OTHER -> EventData

SetProj(p) ==
    /\ agents' = p.agents
    /\ connections' = p.connections
    /\ messages' = p.messages
    /\ activeAgent' = p.activeAgent
    /\ isConnected' = p.isConnected

\* a step of the channel, then the render of the component and its effect
SessionStep(s, op, from) ==
    LET p == deliver(Proj, s.out, 1, Me)
    IN /\ StepChannel(s, op, {}, from)
       /\ SetProj(p)
       /\ fetches' = bootstrapEffect(p.isConnected # isConnected, p.isConnected, fetches)
       /\ UNCHANGED <<updLog, msgLog, hoLog, bootSets, sessions, lastKind, viewVars>>

\* the component mounts: its first render, then the effects
SessionMount ==
    /\ ~Mounted
    /\ Len(activations) < MaxMounts
    /\ StepChannel(mountEffect(Ch, MountHandlers[Len(activations) + 1]), "mount", {}, 0)
    /\ SetProj(InitialProj)
    /\ fetches' = bootstrapEffect(TRUE, InitialProj.isConnected, <<>>)
    /\ activations' = Append(activations, "active")
    /\ connectCalls' = connectCalls + 1
    /\ nullConnects' = IF socket = Null THEN nullConnects + 1 ELSE nullConnects
    /\ UNCHANGED <<emitLog, staleTimers, priorErrors, updLog, msgLog, hoLog, bootSets,
                   sessions, lastKind, viewVars>>

\* the component unmounts: the cleanup runs and the component's state is gone
SessionUnmount ==
    /\ Mounted
    /\ StepChannel(cleanup(Ch, {}), "unmount", {}, 0)
    /\ staleTimers' = timers
    /\ SetProj(InitialProj)
    /\ fetches' = <<>>
    /\ activations' = [activations EXCEPT ![Len(activations)] = "released"]
    /\ UNCHANGED <<connectCalls, nullConnects, emitLog, priorErrors, updLog, msgLog,
                   hoLog, bootSets, sessions, lastKind, viewVars>>

ConnectEvent ==
    /\ Len(fetches) < MaxFetches
    /\ \E i \in InState("opening") :
          SessionStep(onConnect([Ch EXCEPT !.transports[i].st = "open"], {}),
                      "t_connect", i)
    /\ UNCHANGED <<connectCalls, nullConnects, emitLog, staleTimers, activations>>

SessionConnect == ConnectEvent /\ UNCHANGED priorErrors

SessionDisconnect ==
    /\ \E i \in InState("open"), reason \in DropReasons :
          SessionStep(onDisconnect([Ch EXCEPT !.transports[i] = dropped(reason)],
                                   reason, {}),
                      "t_disconnect", i)
    /\ UNCHANGED <<connectCalls, nullConnects, emitLog, staleTimers, activations,
                   priorErrors>>

SessionConnectError ==
    /\ \E i \in InState("opening") :
          SessionStep(onConnectError([Ch EXCEPT !.transports[i] = attemptFailed(@)],
                                     "error", {}),
                      "t_connect_error", i)
    /\ UNCHANGED <<connectCalls, nullConnects, emitLog, staleTimers, activations,
                   priorErrors>>

SessionEvent ==
    /\ Len(messages) + Len(connections) < MaxEvents
    /\ \E i \in InState("open"), kind \in ForwardedEvents :
          \E data \in SessionData(kind) :
             SessionStep(onEvent(Ch, kind, data, {}), "t_event", i)
    /\ UNCHANGED <<connectCalls, nullConnects, emitLog, staleTimers, activations,
                   priorErrors>>

NextSession ==
    \/ SessionMount
    \/ SessionConnect
    \/ SessionDisconnect
    \/ SessionConnectError
    \/ SessionEvent
    \/ TimerFire

SpecSession == Init /\ [][NextSession]_vars

(***************************************************************************)
(* The life of the connection under AgentNetwork, mounted and unmounted:    *)
(* no forwarded event arrives, and every connect event puts on record how   *)
(* many connect-errors came in the row it ends.                             *)
(***************************************************************************)
RowConnect == ConnectEvent /\ priorErrors' = rowErrors

NextLifecycle ==
    \/ SessionMount
    \/ SessionUnmount
    \/ RowConnect
    \/ SessionDisconnect
    \/ SessionConnectError
    \/ TimerFire

SpecLifecycle == Init /\ [][NextLifecycle]_vars

(***************************************************************************)
(* What AgentNetwork renders of its logs (part_001 107-108, 145-146): the   *)
(* values are computed anew from the state at every render.                 *)
(***************************************************************************)
\* Array.prototype.slice(start) for an integer start: a negative start counts
\* from the end and stops at the beginning
slice_First(list, start) ==
    LET n == Len(list)
        count == IF start < 0 THEN 0 - start ELSE n - start
    IN SubSeq(list, 1, IF count < n THEN count ELSE n)

slice(list, start) ==
    LET n == Len(list)
        from == IF start < 0
                THEN (IF n + start < 0 THEN 0 ELSE n + start)
                ELSE (IF start > n THEN n ELSE start)
    IN SubSeq(list, from + 1, n)

\* const recentConnections = connections.slice(-10) (part_001 108)
recentConnections == slice(connections, -10)

\* messages.slice(-5), what the activity list maps over (part_001 146)
shownMessages == slice(messages, -5)

\* Logs a bootstrap can have loaded, long enough for the rendered suffixes
\* to leave entries out once live events are appended.
BootIds == <<"b1", "b2", "b3", "b4", "b5">>
BootEnds == <<[from |-> "A", to |-> "B"], [from |-> "B", to |-> "A"],
              [from |-> "B", to |-> "Z"]>>
BootMessages(n) ==
    [i \in 1..n |-> [id |-> BootIds[i], agent_id |-> "A", type |-> "message"]]
BootHandovers(m) == [i \in 1..m |-> BootEnds[(i % 3) + 1]]

\* The projector after a bootstrap that loaded messages and handovers, its
\* channel connected: live events go on arriving.
InitView ==
    /\ InitChannel
    /\ agents = <<>>
    /\ \E n \in {0, 4, 5} : messages = BootMessages(n)
    /\ \E m \in {0, 9, 10} : connections = BootHandovers(m)
    /\ activeAgent = Undefined
    /\ isConnected = TRUE
    /\ fetches = <<"done">>
    /\ updLog = <<>>
    /\ msgLog = <<>>
    /\ hoLog = <<>>
    /\ bootSets = [what \in {"agents", "messages", "handovers"} |->
                      IF what = "agents" THEN 0 ELSE 1]
    /\ sessions = 1
    /\ lastKind = "none"
    /\ svgRef = Unattached
    /\ drawn = NotRendered

NextView ==
    \/ AgentMessage
    \/ AgentHandover

SpecView == InitView /\ [][NextView]_vars

(***************************************************************************)
(* The Layout Projector: component AgentVisualization.  Its numbers are     *)
(* kept exact: a number is (a + b * sqrt(3)) / d in lowest terms with       *)
(* d > 0, which holds every coordinate the component computes when the      *)
(* angles are multiples of a twelfth of a turn.  The rounding of the        *)
(* floating-point operations is left out.                                   *)
(***************************************************************************)
Abs(n) == IF n < 0 THEN 0 - n ELSE n

RECURSIVE Gcd(_, _)
Gcd(a, b) == IF b = 0 THEN a ELSE Gcd(b, a % b)

Num(a, b, d) ==
    LET s == IF d < 0 THEN 0 - 1 ELSE 1
        g == Gcd(Gcd(Abs(a), Abs(b)), Abs(d))
    IN [a |-> (s * a) \div g, b |-> (s * b) \div g, d |-> (s * d) \div g]

Rat(p, q) == Num(p, 0, q)
Plus(x, y) == Num(x.a * y.d + y.a * x.d, x.b * y.d + y.b * x.d, x.d * y.d)
Minus(x, y) == Num(x.a * y.d - y.a * x.d, x.b * y.d - y.b * x.d, x.d * y.d)
Times(x, y) ==
    Num(x.a * y.a + 3 * x.b * y.b, x.a * y.b + x.b * y.a, x.d * y.d)

\* (index / agents.length) * 2 * Math.PI (AgentVisualization.tsx 43), kept as
\* the fraction of a turn
angle_FromOne(index, n) == [num |-> index + 1, den |-> n]

angle(index, n) == [num |-> index, den |-> n]

\* Math.cos and Math.sin of an angle that is k twelfths of a turn
cosTwelfth ==
    <<Num(1, 0, 1), Num(0, 1, 2), Num(1, 0, 2), Num(0, 0, 1),
      Num(0 - 1, 0, 2), Num(0, 0 - 1, 2), Num(0 - 1, 0, 1), Num(0, 0 - 1, 2),
      Num(0 - 1, 0, 2), Num(0, 0, 1), Num(1, 0, 2), Num(0, 1, 2)>>

twelfths(theta) == ((12 * theta.num) \div theta.den) % 12

cos(theta) == cosTwelfth[twelfths(theta) + 1]
sin(theta) == cosTwelfth[((twelfths(theta) + 9) % 12) + 1]

\* svgRef.current?.clientWidth || 600 and svgRef.current?.clientHeight || 400
\* (AgentVisualization.tsx 34-35)
viewport(ref) ==
    [width |-> IF ref.attached /\ ref.clientWidth # 0 THEN ref.clientWidth ELSE 600,
     height |-> IF ref.attached /\ ref.clientHeight # 0 THEN ref.clientHeight ELSE 400]

\* calculatePositions (AgentVisualization.tsx 33-51): the forEach assigns
\* positions[agent.id] in list order, so the last agent of an id decides
calculatePositions(ags, ref) ==
    LET width == viewport(ref).width
        height == viewport(ref).height
        centerX == Rat(width, 2)
        centerY == Rat(height, 2)
        radius == Times(Rat(IF width < height THEN width ELSE height, 1),
                        Rat(35, 100))
        n == Len(ags)
        place(index) ==
            [x |-> Plus(centerX, Times(radius, cos(angle(index, n)))),
             y |-> Plus(centerY, Times(radius, sin(angle(index, n))))]
        last(id) == CHOOSE i \in 1..n :
                       /\ ags[i].id = id
                       /\ \A j \in (i + 1)..n : ags[j].id # id
    IN [id \in {ags[i].id : i \in 1..n} |-> place(last(id) - 1)]

\* if (!fromPos || !toPos) return null (AgentVisualization.tsx 58-61)
connectorOmitted_FromOnly(positions, connection) ==
    connection.from \notin DOMAIN positions

connectorOmitted_BothMissing(positions, connection) ==
    connection.from \notin DOMAIN positions /\ connection.to \notin DOMAIN positions

connectorOmitted(positions, connection) ==
    connection.from \notin DOMAIN positions \/ connection.to \notin DOMAIN positions

\* the control point, the text position and the path of a connector
\* (AgentVisualization.tsx 63-79)
curve_OtherSide(fromPos, toPos) ==
    LET midX == Times(Plus(fromPos.x, toPos.x), Rat(1, 2))
        midY == Times(Plus(fromPos.y, toPos.y), Rat(1, 2))
        dx == Minus(toPos.x, fromPos.x)
        dy == Minus(toPos.y, fromPos.y)
        normalX == Times(dy, Rat(3, 10))
        normalY == Times(Minus(Rat(0, 1), dx), Rat(3, 10))
        controlX == Plus(midX, normalX)
        controlY == Plus(midY, normalY)
        textX == Plus(midX, Times(normalX, Rat(7, 10)))
        textY == Plus(midY, Times(normalY, Rat(7, 10)))
    IN [kind |-> "g",
        path |-> [M |-> fromPos, Q |-> [x |-> controlX, y |-> controlY], to |-> toPos],
        text |-> [x |-> textX, y |-> textY]]

curve_TextAtControl(fromPos, toPos) ==
    LET midX == Times(Plus(fromPos.x, toPos.x), Rat(1, 2))
        midY == Times(Plus(fromPos.y, toPos.y), Rat(1, 2))
        dx == Minus(toPos.x, fromPos.x)
        dy == Minus(toPos.y, fromPos.y)
        normalX == Times(Minus(Rat(0, 1), dy), Rat(3, 10))
        normalY == Times(dx, Rat(3, 10))
        controlX == Plus(midX, normalX)
        controlY == Plus(midY, normalY)
    IN [kind |-> "g",
        path |-> [M |-> fromPos, Q |-> [x |-> controlX, y |-> controlY], to |-> toPos],
        text |-> [x |-> controlX, y |-> controlY]]

curve(fromPos, toPos) ==
    LET midX == Times(Plus(fromPos.x, toPos.x), Rat(1, 2))
        midY == Times(Plus(fromPos.y, toPos.y), Rat(1, 2))
        dx == Minus(toPos.x, fromPos.x)
        dy == Minus(toPos.y, fromPos.y)
        normalX == Times(Minus(Rat(0, 1), dy), Rat(3, 10))
        normalY == Times(dx, Rat(3, 10))
        controlX == Plus(midX, normalX)
        controlY == Plus(midY, normalY)
        textX == Plus(midX, Times(normalX, Rat(7, 10)))
        textY == Plus(midY, Times(normalY, Rat(7, 10)))
    IN [kind |-> "g",
        path |-> [M |-> fromPos, Q |-> [x |-> controlX, y |-> controlY], to |-> toPos],
        text |-> [x |-> textX, y |-> textY]]

\* what the callback of connections.map returns or does: null for an omitted
\* connector, a TypeError when it reads x of an undefined position
OmittedConnector == [kind |-> "null"]
TypeError == [kind |-> "TypeError"]

\* renderConnections (AgentVisualization.tsx 54-146)
renderConnections(ags, conns, ref) ==
    LET positions == calculatePositions(ags, ref)
    IN [i \in 1..Len(conns) |->
          IF connectorOmitted(positions, conns[i]) THEN OmittedConnector
          ELSE IF \/ conns[i].from \notin DOMAIN positions
                  \/ conns[i].to \notin DOMAIN positions
               THEN TypeError
               ELSE curve(positions[conns[i].from], positions[conns[i].to])]

\* ---- AgentVisualization renders with the props AgentNetwork gives it
\* (part_001 130-134); the component takes any props, also no agents
Render ==
    /\ drawn' =
          LET connectors == renderConnections(agents, recentConnections, svgRef)
          IN [rendered |-> TRUE,
              agents |-> agents,
              connections |-> recentConnections,
              viewport |-> viewport(svgRef),
              positions |-> calculatePositions(agents, svgRef),
              connectors |-> connectors,
              threw |-> \E i \in 1..Len(connectors) : connectors[i] = TypeError]
    /\ UNCHANGED <<svgRef, projVars, projHist, chanVars, chanHist, activations, priorErrors>>

\* The sizes the <svg> element can have; a client size of 0 takes the default.
ClientSizes ==
    {[attached |-> TRUE, clientWidth |-> 600, clientHeight |-> 400],
     [attached |-> TRUE, clientWidth |-> 800, clientHeight |-> 600],
     [attached |-> TRUE, clientWidth |-> 400, clientHeight |-> 500],
     [attached |-> TRUE, clientWidth |-> 0, clientHeight |-> 300]}

\* React attaches the ref after the first render, and the element is laid
\* out again when its container changes
Layout ==
    /\ drawn.rendered
    /\ \E size \in ClientSizes : svgRef' = size
    /\ UNCHANGED <<drawn, projVars, projHist, chanVars, chanHist, activations, priorErrors>>

\* The agents a projector can hold when AgentVisualization renders, in the
\* order of the list; their number keeps every angle a twelfth of a turn.
AgentOrders ==
    {<<>>, <<"A">>, <<"A", "B">>, <<"A", "B", "C">>, <<"B", "A", "C">>,
     <<"A", "B", "C", "D">>, <<"A", "B", "C", "D", "E", "F">>}
AgentsOf(order) ==
    [i \in 1..Len(order) |->
        [id |-> order[i], status |-> "idle", llm_type |-> Undefined]]

\* handovers among the agents, as a bootstrap loads them
LoadedHandovers ==
    {<<>>, <<[from |-> "C", to |-> "A"], [from |-> "D", to |-> "F"]>>}

\* The projector after a bootstrap that loaded agents and handovers, its
\* channel connected and AgentVisualization about to render.
InitLayout ==
    /\ InitChannel
    /\ \E order \in AgentOrders : agents = AgentsOf(order)
    /\ connections \in LoadedHandovers
    /\ messages = <<>>
    /\ activeAgent = Undefined
    /\ isConnected = TRUE
    /\ fetches = <<"done">>
    /\ updLog = <<>>
    /\ msgLog = <<>>
    /\ hoLog = <<>>
    /\ bootSets = [what \in {"agents", "messages", "handovers"} |->
                      IF what = "messages" THEN 0 ELSE 1]
    /\ sessions = 1
    /\ lastKind = "none"
    /\ svgRef = Unattached
    /\ drawn = NotRendered

NextLayout ==
    \/ AgentHandover
    \/ Render
    \/ Layout

SpecLayout == InitLayout /\ [][NextLayout]_vars

\* AgentVisualization rendering while agent_update events arrive
NextRelayout ==
    \/ AgentUpdate
    \/ Render
    \/ Layout

SpecRelayout == InitLayout /\ [][NextRelayout]_vars

(***************************************************************************)
(* Claims about the Event Channel.                                          *)
(***************************************************************************)
\* every Socket ever created is closed
AllClosed == \A i \in 1..Len(transports) : transports[i].st = "closed"

\* C1: the number of transport connections created equals the number of
\* connect() calls made while the channel held no transport handle; a call
\* made while the channel is connecting or connected creates none.
C1_ConnectIdempotent == Len(transports) = nullConnects

\* a connect() call was just made on a connected channel
C1_Witness ==
    /\ lastOp = "connect"
    /\ connected
    /\ connectCalls > nullConnects
    /\ Len(transports) = 1

\* C6: a connect_error step dispatches CONNECT_ERROR to every subscriber of
\* that kind and adds one to reconnectAttempts; when the counter then
\* exceeds maxReconnectAttempts the handle is cleared and the channel is
\* disconnected; with no handle held no Socket is opening or open, and the
\* handle comes back only by connect().
C6_ConnectErrorStep ==
    (lastOp' = "t_connect_error" /\ vars' # vars) =>
        /\ Len(out') = 1
        /\ out'[1].kind = "connect_error"
        /\ out'[1].invoked = listeners["connect_error"]
        /\ reconnectAttempts' = reconnectAttempts + 1
        /\ (reconnectAttempts' > maxReconnectAttempts
               => socket' = Null /\ ~connected')

C6_GiveUp ==
    /\ [][C6_ConnectErrorStep]_vars
    /\ [](socket = Null => ~connected /\ AllClosed)
    /\ [][(socket = Null /\ socket' # Null) => lastOp' = "connect"]_vars

\* the counter has just passed the maximum, with a subscriber notified
C6_Witness ==
    /\ lastOp = "t_connect_error"
    /\ reconnectAttempts = maxReconnectAttempts + 1
    /\ socket = Null
    /\ Len(out) = 1
    /\ Len(out[1].invoked) = 2

\* C7 as stated: after five connect-errors in a row the channel is
\* disconnected and the subscribers have had one notification of it.
C7_FiveErrorsDisconnect ==
    (lastOp = "t_connect_error" /\ rowErrors = maxReconnectAttempts) =>
        /\ socket = Null
        /\ ~connected
        /\ rowNotes = 1

\* C7 as amended: after a connect-error the handle is cleared exactly when
\* more than maxReconnectAttempts connect-errors came in a row, that is at
\* the sixth and not at the fifth; every connect-error is dispatched once as
\* CONNECT_ERROR, six dispatches for six errors, and the step that gives up
\* dispatches nothing else.
C7_SixErrorsDisconnect ==
    /\ rowNotes = rowErrors
    /\ lastOp = "t_connect_error" =>
          /\ (socket = Null) <=> (rowErrors > maxReconnectAttempts)
          /\ Len(out) = 1
          /\ out[1].kind = "connect_error"

\* the sixth connect-error in a row has just closed the channel
C7_Witness ==
    /\ lastOp = "t_connect_error"
    /\ rowErrors = maxReconnectAttempts + 1
    /\ rowNotes = maxReconnectAttempts + 1
    /\ socket = Null
    /\ out[1].invoked # <<>>

\* C8: when every attempt fails, a channel that holds a handle comes to hold
\* none, and then no Socket is opening or open and only connect() gives it
\* a handle again: a timer that fires does not.
C8_StopsRetrying ==
    /\ (socket # Null) ~> (socket = Null)
    /\ [](socket = Null => ~connected /\ AllClosed)
    /\ [][(socket = Null /\ socket' # Null) => lastOp' = "connect"]_vars

\* the channel gave up while a timer of reconnect() was pending, and the
\* timer has fired since
C8_Witness ==
    /\ lastOp = "timer"
    /\ socket = Null
    /\ rowErrors > maxReconnectAttempts
    /\ Len(transports) > 0

\* C9: every dispatch of a step calls every handler registered for its kind,
\* in order, also after one of them threw; the exception is caught and none
\* leaves notifyListeners; and the listener that dispatched goes on as it
\* does when no handler throws.
C9_Dispatch(d) ==
    /\ d.invoked = listeners[d.kind]
    /\ d.raised = FALSE
    /\ \A h \in Handlers :
          (\E i \in 1..Len(d.caught) : d.caught[i] = h)
             <=> (h \in threw' /\ \E i \in 1..Len(d.invoked) : d.invoked[i] = h)

C9_Effect ==
    /\ lastOp' = "t_event" => UNCHANGED chanVars
    /\ lastOp' = "t_connect" => connected' /\ reconnectAttempts' = 0
    /\ lastOp' = "t_connect_error" => reconnectAttempts' = reconnectAttempts + 1
    /\ lastOp' = "t_disconnect" =>
          /\ ~connected'
          /\ timers' = IF out'[1].data = ServerDisconnect THEN timers + 1 ELSE timers
    /\ lastOp' = "disconnect" => socket' = Null /\ ~connected'

C9_HandlerIsolation ==
    [][(vars' # vars /\ out' # <<>>) =>
          /\ \A i \in 1..Len(out') : C9_Dispatch(out'[i])
          /\ UNCHANGED listeners
          /\ threw' # {} => C9_Effect]_vars

\* the first of two handlers threw and the second was called
C9_Witness ==
    /\ Len(out) = 1
    /\ Len(out[1].invoked) = 2
    /\ out[1].invoked[1] \in threw
    /\ out[1].invoked[2] \notin threw
    /\ out[1].caught = <<out[1].invoked[1]>>

\* C10: what the transport was given to send is exactly the payloads of the
\* emit() calls made while the channel was connected, in call order: a call
\* made while it was not connected is dropped and is not sent later.
Live(e) == e.live

C10_EmitOnlyWhenConnected ==
    LET live == SelectSeq(emitLog, Live)
    IN sent = [i \in 1..Len(live) |-> <<"command", live[i].data>>]

\* an emit() was dropped, the channel connected, and the next emit() was sent
C10_Witness ==
    /\ Len(emitLog) = 2
    /\ ~emitLog[1].live
    /\ emitLog[2].live
    /\ Len(sent) = 1
    /\ connected

\* the Sockets that are opening or open: those that can emit an event
LiveSockets == InState("opening") \cup InState("open")

\* the steps that handle an event of a Socket
TransportOps == {"t_connect", "t_disconnect", "t_connect_error", "t_event"}

\* C11: in every reachable state at most one Socket is opening or open, and
\* it is the one the channel holds; every other Socket ever created is closed.
C11_OneLiveConnection ==
    /\ Cardinality(LiveSockets) <= 1
    /\ \A i \in LiveSockets : i = socket

\* a second Socket is held and open, while a timer scheduled for the first
\* one is still pending
C11_Witness ==
    /\ Len(transports) = 2
    /\ socket = 2
    /\ transports[2].st = "open"
    /\ transports[1].st = "closed"
    /\ staleTimers > 0

\* C12: a disconnect() call leaves the channel with no handle and not
\* connected, with the Socket it held closed; a call made when no handle is
\* held changes nothing of the channel and calls no handler; and a second
\* disconnect() applied to the state the first one returns gives that state.
C12_Idempotent ==
    \A T \in SUBSET Handlers :
       disconnect(disconnect(Ch, T), T) = disconnect(Ch, T)

C12_DisconnectStep ==
    lastOp' = "disconnect" =>
        /\ socket' = Null
        /\ ~connected'
        /\ socket # Null => transports'[socket].st = "closed"
        /\ socket = Null => UNCHANGED chanVars /\ out' = <<>>
        /\ C12_Idempotent

C12_DisconnectTeardown == [][C12_DisconnectStep]_vars

\* disconnect() has just torn down an open connection, its subscribers told
C12_Witness ==
    /\ lastOp = "disconnect"
    /\ socket = Null
    /\ ~connected
    /\ Len(out) = 1
    /\ out[1].kind = "disconnect"
    /\ out[1].data = ClientDisconnect
    /\ AllClosed

\* C13 as stated: a timer that was pending when disconnect() was called starts
\* no connection attempt when it fires, that is it changes no Socket.
C13_StaleTimerInert ==
    [][(lastOp' = "timer" /\ staleTimers' < staleTimers)
          => transports' = transports]_vars

\* C14: every event a Socket emits comes from the Socket the channel holds at
\* that moment; a Socket disconnect() was called on emits nothing after the
\* call, so that no step run for it calls a handler or changes the connected
\* flag or the attempt counter, and its transport state stays as it is.
C14_HeldOnly ==
    /\ lastOp' \in TransportOps => socket # Null /\ lastFrom' = socket
    /\ \A i \in 1..Len(transports) :
          i # socket => /\ transports'[i] = transports[i]
                        /\ transports[i].st = "closed"
                        /\ lastFrom' # i

C14_NoEventAfterDisconnect == [][C14_HeldOnly]_vars

\* an event of the second Socket is dispatched to a subscriber, the first
\* Socket having been torn down
C14_Witness ==
    /\ lastOp = "t_event"
    /\ Len(transports) = 2
    /\ socket = 2
    /\ lastFrom = 2
    /\ out[1].invoked # <<>>

\* C15: a step schedules a timer exactly when it handles a transport
\* disconnect whose reason is the server's close, and then it schedules one;
\* a transport disconnect with another reason schedules none, nor does the
\* disconnect the client's own disconnect() causes.
C15_ScheduleStep ==
    /\ lastOp' = "t_disconnect" =>
          timers' = IF out'[1].data = ServerDisconnect THEN timers + 1 ELSE timers
    /\ lastOp' = "disconnect" => timers' = timers
    /\ timers' > timers =>
          /\ lastOp' = "t_disconnect"
          /\ out'[1].kind = "disconnect"
          /\ out'[1].data = ServerDisconnect
          /\ timers' = timers + 1

C15_ServerCloseSchedulesOne == [][C15_ScheduleStep]_vars

\* the server closed the connection and the one timer is pending
C15_Witness ==
    /\ lastOp = "t_disconnect"
    /\ out[1].data = ServerDisconnect
    /\ timers = 1
    /\ socket # Null
    /\ ~connected

\* C16: the delay of a timer a step schedules is 2000 * 1.5^k ms, k being
\* reconnectAttempts when the step begins (the DISCONNECT listener does not
\* change the counter); and reconnect() computes that delay for every k the
\* counter can hold.
C16_Exact(d, k) == d[1] * Pow(2, k) = 2000 * Pow(3, k) * d[2]

C16_DelayStep ==
    timers' > timers =>
        /\ C16_Exact(lastDelay', reconnectAttempts)
        /\ \A k \in 0..(maxReconnectAttempts + 1) :
              C16_Exact(reconnect([Ch EXCEPT !.connected = FALSE,
                                             !.reconnectAttempts = k]).delay, k)

C16_BackoffDelay == [][C16_DelayStep]_vars

\* the server's close has just scheduled a timer, with the counter at 0
C16_Witness ==
    /\ lastOp = "t_disconnect"
    /\ out[1].data = ServerDisconnect
    /\ reconnectAttempts = 0
    /\ lastDelay = <<2000, 1>>

\* C17: no delay reconnect() gave setTimeout is above reconnectionDelayMax.
C17_DelayWithinMax == lastDelay[1] <= reconnectionDelayMax * lastDelay[2]

\* a timer is pending and its delay is not zero
C17_Witness ==
    /\ timers > 0
    /\ lastDelay[1] > 0
    /\ lastDelay[1] < reconnectionDelayMax * lastDelay[2]

\* the connection state of the channel
State(h, c) == IF h = Null THEN "disconnected"
               ELSE IF c THEN "connected" ELSE "connecting"

\* C18: the connection state changes only from disconnected to connecting by
\* connect(), from connecting to connected by the Socket's connect event,
\* from connected to connecting by the Socket's disconnect event while the
\* counter is within maxReconnectAttempts, and to disconnected by
\* disconnect() or by the connect-error that takes the counter above
\* maxReconnectAttempts; a timer never takes a disconnected channel to
\* connecting.
C18_Transition ==
    LET before == State(socket, connected)
        after == State(socket', connected')
    IN before # after =>
          \/ /\ before = "disconnected"
             /\ after = "connecting"
             /\ lastOp' = "connect"
          \/ /\ before = "connecting"
             /\ after = "connected"
             /\ lastOp' = "t_connect"
          \/ /\ before = "connected"
             /\ after = "connecting"
             /\ lastOp' = "t_disconnect"
             /\ reconnectAttempts' <= maxReconnectAttempts
          \/ /\ after = "disconnected"
             /\ \/ lastOp' = "disconnect"
                \/ /\ lastOp' = "t_connect_error"
                   /\ reconnectAttempts' > maxReconnectAttempts

C18_StateMachine == [][C18_Transition]_vars

\* the timer of a server's close has fired and the channel, still holding
\* its first Socket, is connecting again
C18_Witness ==
    /\ lastOp = "timer"
    /\ Len(transports) = 1
    /\ Held("opening")
    /\ State(socket, connected) = "connecting"
    /\ timers = 0

\* C19: a connect() call made with no handle held gives the channel a new
\* Socket that is opening, whatever reconnectAttempts is, also above
\* maxReconnectAttempts; connect(), disconnect() and the give-up keep every
\* registered handler; and an event of the new Socket is dispatched to the
\* handlers registered for its kind.
C19_ReenterStep ==
    /\ (lastOp' = "connect" /\ socket = Null) =>
          /\ socket' = Len(transports) + 1
          /\ Len(transports') = Len(transports) + 1
          /\ transports'[socket'].st = "opening"
          /\ State(socket', connected') = "connecting"
    /\ lastOp' \in {"connect", "disconnect", "t_connect_error"} =>
          UNCHANGED listeners
    /\ lastOp' \in {"t_connect", "t_event"} =>
          /\ lastFrom' = socket
          /\ out'[1].invoked = listeners[out'[1].kind]

C19_Reenterable == [][C19_ReenterStep]_vars

\* after the channel gave up, a fresh connect() has a new Socket opening and
\* the handler registered is still registered
C19_Witness ==
    /\ lastOp = "connect"
    /\ reconnectAttempts > maxReconnectAttempts
    /\ Held("opening")
    /\ Len(transports) = 2
    /\ listeners["agent_message"] # <<>>

(***************************************************************************)
(* Claims about the State Projector.                                        *)
(***************************************************************************)
Ids(list) == {list[i].id : i \in 1..Len(list)}

\* the place of the last event of the log for an id
LastOf(log, id) ==
    CHOOSE j \in 1..Len(log) :
       /\ log[j].id = id
       /\ \A k \in (j + 1)..Len(log) : log[k].id # id

IsPrefix(a, b) == Len(a) <= Len(b) /\ \A i \in 1..Len(a) : a[i] = b[i]

\* C2: after any sequence of agent_update events (no bootstrap answer has
\* set the agents) the agents hold one record for each id updated and no
\* other, and the record of an id is the whole payload of its last update.
C2_UpsertLastWins ==
    bootSets["agents"] = 0 =>
        /\ \A i, j \in 1..Len(agents) : agents[i].id = agents[j].id => i = j
        /\ Ids(agents) = Ids(updLog)
        /\ \A i \in 1..Len(agents) : agents[i] = updLog[LastOf(updLog, agents[i].id)]

\* an agent was updated twice, the second payload without the optional field
\* the first had, and another agent once
C2_Witness ==
    /\ bootSets["agents"] = 0
    /\ Len(updLog) = 3
    /\ updLog[1].id = updLog[3].id
    /\ updLog[1].llm_type # Undefined
    /\ updLog[3].llm_type = Undefined
    /\ updLog[2].id # updLog[1].id
    /\ Len(agents) = 2

\* C3: after N message events (agent_message or agent_thinking), with no
\* bootstrap answer having set the log, the message log is the N payloads in
\* arrival order, a payload delivered twice being there twice; the same for
\* handover events and the handover log.
C3_LogsAreArrivals ==
    /\ bootSets["messages"] = 0 => messages = msgLog
    /\ bootSets["handovers"] = 0 => connections = hoLog

\* the same message was delivered twice, then a handover
C3_Witness ==
    /\ bootSets["messages"] = 0
    /\ bootSets["handovers"] = 0
    /\ Len(msgLog) = 2
    /\ msgLog[1] = msgLog[2]
    /\ Len(messages) = 2
    /\ Len(connections) = 1

\* C4: no step removes, replaces or reorders an entry of the message log or
\* of the handover log.
C4_LogsAppendOnly ==
    [][IsPrefix(messages, messages') /\ IsPrefix(connections, connections')]_vars

\* C20: activeAgent is undefined while no message, thinking or handover
\* event has been applied; otherwise it is the agent_id of the last message
\* or thinking event when such an event was applied last, and the to of the
\* last handover when a handover was applied last; a step that applies an
\* agent update leaves it as it is, and so does every step of fetchData.
C20_Pointer ==
    /\ lastKind = "none" =>
          /\ msgLog = <<>>
          /\ hoLog = <<>>
          /\ activeAgent = Undefined
    /\ lastKind = "message" =>
          /\ msgLog # <<>>
          /\ activeAgent = msgLog[Len(msgLog)].agent_id
    /\ lastKind = "handover" =>
          /\ hoLog # <<>>
          /\ activeAgent = hoLog[Len(hoLog)].to

C20_PointerStep ==
    /\ C20_Pointer
    /\ C20_Pointer'
    /\ (msgLog' = msgLog /\ hoLog' = hoLog) => activeAgent' = activeAgent

C20_ActivePointer == [][C20_PointerStep]_vars

\* a handover to B came after a message of another agent and an agent update
C20_Witness ==
    /\ lastKind = "handover"
    /\ updLog # <<>>
    /\ msgLog # <<>>
    /\ msgLog[Len(msgLog)].agent_id # hoLog[Len(hoLog)].to
    /\ hoLog[Len(hoLog)].from # hoLog[Len(hoLog)].to
    /\ activeAgent = hoLog[Len(hoLog)].to

\* C21 as stated: a fetchData invocation that ended in its catch leaves the
\* agents, the messages and the connections as they were, that is it has
\* called none of setAgents, setMessages and setConnections; so when every
\* invocation made so far has ended in its catch, no setter of fetchData has
\* been called at all.
C21_FailedBootstrapInert ==
    (fetches # <<>> /\ \A f \in 1..Len(fetches) : fetches[f] = "failed")
        => \A what \in DOMAIN bootSets : bootSets[what] = 0

\* C22: what is rendered of the messages is their last min(5, n) entries
\* and of the connections their last min(10, m) entries, in the order of the
\* log; and a new entry makes the log one longer whatever its length, so the
\* logs keep every entry.
C22_Suffix(view, log, k) ==
    LET n == Len(log)
        shown == IF n < k THEN n ELSE k
    IN /\ Len(view) = shown
       /\ \A i \in 1..shown : view[i] = log[n - shown + i]

C22_View ==
    /\ C22_Suffix(shownMessages, messages, 5)
    /\ C22_Suffix(recentConnections, connections, 10)

C22_ViewStep ==
    /\ C22_View
    /\ C22_View'
    /\ msgLog' # msgLog =>
          /\ Len(messages') = Len(messages) + 1
          /\ IsPrefix(messages, messages')
    /\ hoLog' # hoLog =>
          /\ Len(connections') = Len(connections) + 1
          /\ IsPrefix(connections, connections')

\* C22: every step leaves the rendered lists the last 5 messages and the
\* last 10 connections, and an append makes the full log one longer.
C22_BoundedView == [][C22_ViewStep]_vars

\* both logs are longer than what is rendered of them, each by live events
C22_Witness ==
    /\ Len(messages) = 6
    /\ Len(connections) = 11
    /\ msgLog # <<>>
    /\ hoLog # <<>>
    /\ Len(shownMessages) = 5
    /\ Len(recentConnections) = 10
    /\ shownMessages[5] = msgLog[Len(msgLog)]
    /\ recentConnections[1] = connections[2]

\* C5: no step removes an agent id from the agents.
C5_AgentsNeverDeleted == [][Ids(agents) \subseteq Ids(agents')]_vars

(***************************************************************************)
(* Claims about the Layout Projector, on what AgentVisualization last       *)
(* rendered.                                                                *)
(***************************************************************************)
\* the connectors of the last render that were drawn
Drawn == {i \in 1..Len(drawn.connectors) : drawn.connectors[i].kind = "g"}

\* the positions of the two ends of connection i of the last render
FromPos(i) == drawn.positions[drawn.connections[i].from]
ToPos(i) == drawn.positions[drawn.connections[i].to]

\* C23: the AGENT_HANDOVER handler appends every handover to the connections,
\* whether or not its ids are among the agents; and a render draws no
\* connector for a connection one of whose ids is not among the agents, and
\* throws nothing.
C23_Render ==
    drawn.rendered =>
        /\ ~drawn.threw
        /\ \A i \in 1..Len(drawn.connections) :
              (\/ drawn.connections[i].from \notin Ids(drawn.agents)
               \/ drawn.connections[i].to \notin Ids(drawn.agents))
                 => drawn.connectors[i] = OmittedConnector

C23_Step ==
    /\ hoLog' # hoLog =>
          /\ hoLog' = Append(hoLog, hoLog'[Len(hoLog')])
          /\ connections' = Append(connections, hoLog'[Len(hoLog')])
    /\ C23_Render'

Positive(x) ==
    \/ x.a > 0 /\ x.b >= 0
    \/ x.a >= 0 /\ x.b > 0
    \/ x.a > 0 /\ x.b < 0 /\ x.a * x.a > 3 * x.b * x.b
    \/ x.a < 0 /\ x.b > 0 /\ 3 * x.b * x.b > x.a * x.a

\* the square of the distance of two points, and the cross product of the
\* vectors from a point c to two points
Dist2(p, q) ==
    Plus(Times(Minus(p.x, q.x), Minus(p.x, q.x)),
         Times(Minus(p.y, q.y), Minus(p.y, q.y)))
Cross(c, p, q) ==
    Minus(Times(Minus(p.x, c.x), Minus(q.y, c.y)),
          Times(Minus(p.y, c.y), Minus(q.x, c.x)))

\* C25: the positions of a render of N agents with distinct ids lie on the
\* circle of centre (W/2, H/2) and radius 0.35 * min(W, H); the first agent
\* is at angle 0; each agent is as far from the next as every other, the
\* last from the first included, the angle growing from one to the next, no
\* two at one place and all of them around the centre, which makes the
\* angle of agent i the fraction i/N of a turn.  Agents A, B, C in 600 x 400
\* are at (440, 200), (230, 200 + 70 sqrt(3)) and (230, 200 - 70 sqrt(3)):
\* radius 140 about (300, 200), at angles 0, 2 pi / 3 and 4 pi / 3.
C25_OnCircle ==
    LET n == Len(drawn.agents)
        W == drawn.viewport.width
        H == drawn.viewport.height
        c == [x |-> Rat(W, 2), y |-> Rat(H, 2)]
        r == Rat(35 * (IF W < H THEN W ELSE H), 100)
        P(i) == drawn.positions[drawn.agents[i].id]
        next(i) == (i % n) + 1
    IN /\ \A i \in 1..n : Dist2(P(i), c) = Times(r, r)
       /\ n >= 1 => P(1) = [x |-> Plus(c.x, r), y |-> c.y]
       /\ n = 2 => P(2) = [x |-> Minus(c.x, r), y |-> c.y]
       /\ \A i \in 1..n : Dist2(P(i), P(next(i))) = Dist2(P(1), P(next(1)))
       /\ \A i \in 1..n, j \in 1..n : i # j => P(i) # P(j)
       /\ n >= 3 => \A i \in 1..n : Positive(Cross(c, P(i), P(next(i))))

C25_Example ==
    (/\ drawn.viewport = [width |-> 600, height |-> 400]
     /\ Len(drawn.agents) = 3
     /\ drawn.agents[1].id = "A"
     /\ drawn.agents[2].id = "B"
     /\ drawn.agents[3].id = "C")
       => /\ drawn.positions["A"] = [x |-> Num(440, 0, 1), y |-> Num(200, 0, 1)]
          /\ drawn.positions["B"] = [x |-> Num(230, 0, 1), y |-> Num(200, 70, 1)]
          /\ drawn.positions["C"] = [x |-> Num(230, 0, 1), y |-> Num(200, 0 - 70, 1)]

\* C25: every render places the agents equally spaced on that circle, and
\* A, B, C in 600 x 400 where the example says.
C25_CircularLayout == drawn.rendered => C25_OnCircle /\ C25_Example

\* agents A, B, C were rendered in 600 x 400, the size of the attached <svg>
C25_Witness ==
    /\ drawn.rendered
    /\ svgRef.attached
    /\ drawn.viewport = [width |-> 600, height |-> 400]
    /\ Len(drawn.agents) = 3
    /\ drawn.agents[1].id = "A"
    /\ drawn.agents[3].id = "C"
    /\ drawn.positions["B"].y = Num(200, 70, 1)

\* C27: a connector drawn for ends at F and T is the path that starts at F,
\* ends at T and has the control point
\* ((F.x + T.x)/2 - 0.3 (T.y - F.y), (F.y + T.y)/2 + 0.3 (T.x - F.x)),
\* compared after multiplying by 10.
C27_ControlPoint ==
    drawn.rendered =>
        \A i \in Drawn :
           LET F == FromPos(i)
               T == ToPos(i)
               path == drawn.connectors[i].path
           IN /\ path.M = F
              /\ path.to = T
              /\ Times(path.Q.x, Rat(10, 1)) =
                    Minus(Times(Plus(F.x, T.x), Rat(5, 1)),
                          Times(Minus(T.y, F.y), Rat(3, 1)))
              /\ Times(path.Q.y, Rat(10, 1)) =
                    Plus(Times(Plus(F.y, T.y), Rat(5, 1)),
                         Times(Minus(T.x, F.x), Rat(3, 1)))

\* a connector was drawn between two agents that differ in x and in y, its
\* control point off the straight line
C27_Witness ==
    /\ drawn.rendered
    /\ \E i \in Drawn :
          /\ FromPos(i).x # ToPos(i).x
          /\ FromPos(i).y # ToPos(i).y
          /\ drawn.connectors[i].path.Q.x # Times(Plus(FromPos(i).x, ToPos(i).x), Rat(1, 2))
          /\ Positive(Cross(FromPos(i), ToPos(i), drawn.connectors[i].path.Q))

\* the point of a quadratic curve at half its parameter
CurveMid(path, axis) ==
    Times(Plus(Plus(path.M[axis], Times(path.Q[axis], Rat(2, 1))), path.to[axis]),
          Rat(1, 4))

\* C28 as stated: the text position is the point 70% of the way from the
\* midpoint of the curve to the control point.
C28_FromCurveMidpoint ==
    drawn.rendered =>
        \A i \in Drawn : \A axis \in {"x", "y"} :
           LET path == drawn.connectors[i].path
               m == CurveMid(path, axis)
           IN drawn.connectors[i].text[axis] =
                 Plus(m, Times(Minus(path.Q[axis], m), Rat(7, 10)))

\* C28 as amended: the text position is the point 70% of the way from the
\* midpoint of the straight line between the two ends to the control point;
\* compared after multiplying by 20.
C28_FromChordMidpoint ==
    drawn.rendered =>
        \A i \in Drawn : \A axis \in {"x", "y"} :
           LET path == drawn.connectors[i].path
           IN Times(drawn.connectors[i].text[axis], Rat(20, 1)) =
                 Plus(Times(Plus(FromPos(i)[axis], ToPos(i)[axis]), Rat(3, 1)),
                      Times(path.Q[axis], Rat(14, 1)))

\* a connector was drawn whose text position is neither on the straight
\* line nor at the control point
C28_Witness ==
    /\ drawn.rendered
    /\ \E i \in Drawn :
          /\ drawn.connectors[i].text # drawn.connectors[i].path.Q
          /\ drawn.connectors[i].text.x #
                Times(Plus(FromPos(i).x, ToPos(i).x), Rat(1, 2))
          /\ drawn.connections[i].from # drawn.connections[i].to

(***************************************************************************)
(* Claims about the subscriptions.                                          *)
(***************************************************************************)
\* the handlers registered for a kind
Registered(kind) == {listeners[kind][i] : i \in 1..Len(listeners[kind])}

\* C29 as stated: once a mount of AgentNetwork has been cleaned up, none of
\* the callbacks that mount registered is registered for any kind.
C29_ReleasedOnDeactivation ==
    \A k \in 1..Len(activations) :
       activations[k] = "released" =>
          \A kind \in SocketEvent : MountHandlers[k] \notin Registered(kind)

\* the members of a list, and a list that has no member twice
Members(list) == {list[i] : i \in 1..Len(list)}
NoRepeat(list) == \A i \in 1..Len(list), j \in 1..Len(list) : list[i] = list[j] => i = j

\* C30: in every state an on() or off() call is made in, on(kind, h) makes
\* the handlers of kind those it had and h, and off(kind, h) those it had except h, both leaving the handlers
\* of every other kind and the rest of the channel as they are; off of a
\* handler that is not registered returns the state unchanged; no handler is
\* registered twice for a kind; and every dispatch of a step calls each
\* handler registered for its kind once and no other.
C30_On ==
    LET c == Ch
    IN \A kind \in SubKinds, h \in Handlers :
          LET added == on(c, kind, h)
          IN /\ Members(added.listeners[kind]) = Registered(kind) \cup {h}
             /\ added = [c EXCEPT !.listeners[kind] = added.listeners[kind]]
             /\ h \in Registered(kind) => added = c

C30_Off ==
    LET c == Ch
    IN \A kind \in SubKinds, h \in Handlers :
          LET removed == off(c, kind, h)
          IN /\ Members(removed.listeners[kind]) = Registered(kind) \ {h}
             /\ removed = [c EXCEPT !.listeners[kind] = removed.listeners[kind]]
             /\ h \notin Registered(kind) => removed = c

C30_Step ==
    /\ lastOp' = "on" => C30_On
    /\ lastOp' = "off" => C30_Off
    /\ lastOp' \in {"on", "off"} =>
          /\ \A kind \in SocketEvent : NoRepeat(listeners'[kind])
          /\ \E kind \in SubKinds :
                /\ \A other \in SocketEvent \ {kind} :
                      listeners'[other] = listeners[other]
                /\ \E h \in Handlers :
                      Registered(kind)' = IF lastOp' = "on"
                                           THEN Registered(kind) \cup {h}
                                           ELSE Registered(kind) \ {h}
    /\ lastOp' \in TransportOps =>
          \A i \in 1..Len(out') :
             /\ Members(out'[i].invoked) = Registered(out'[i].kind)
             /\ NoRepeat(out'[i].invoked)

\* C30: every on() and off() step changes the handler set of one kind by the
\* one handler, and every dispatch calls exactly the handlers of its kind.
C30_HandlerSets == [][C30_Step]_vars

\* an event was dispatched to the two handlers of its kind, after off() had
\* taken one of them from another kind
C30_Witness ==
    /\ lastOp = "t_event"
    /\ out[1].kind = "agent_message"
    /\ Members(out[1].invoked) = {"h1", "h2"}
    /\ Registered("connect_error") = {"h2"}
    /\ Registered("system_message") = {}

(***************************************************************************)
(* Claims about AgentNetwork mounted on the channel.                        *)
(***************************************************************************)
\* C31: while the component stays mounted, a step starts a fetchData()
\* exactly when it takes isConnected from false to true, and then starts
\* one; a step that leaves isConnected false, or true, or takes it to false
\* starts none, and neither does the mount.
C31_Step ==
    /\ lastOp' = "mount" => fetches' = <<>>
    /\ (Mounted /\ activations' = activations) =>
          IF ~isConnected /\ isConnected'
          THEN fetches' = Append(fetches, "agents")
          ELSE fetches' = fetches

\* C31: every step starts a fetchData() exactly when it takes the mounted
\* component's isConnected from false to true.
C31_BootstrapPerConnect == [][C31_Step]_vars

\* the component has become connected twice, started two fetchData() and is
\* disconnected again
C31_Witness ==
    /\ Mounted
    /\ Len(fetches) = 2
    /\ ~isConnected
    /\ lastOp = "t_disconnect"

\* C32: while the component is mounted its isConnected is what the
\* channel's isConnected() returns, after every step: after the connect and
\* disconnect events of the Socket, and after the connect-error that makes
\* the channel give up.
C32_FlagFollowsChannel == Mounted => isConnected = isConnectedFn(Ch)

\* the component was connected, and the channel has now given up
C32_Witness ==
    /\ Mounted
    /\ fetches # <<>>
    /\ lastOp = "t_connect_error"
    /\ socket = Null
    /\ ~isConnected

\* C33: the connect event sets reconnectAttempts to 0, so that the counter
\* is the number of connect-errors since the last connect event; and the
\* connect-error that clears the handle is one that takes that number above
\* maxReconnectAttempts.
C33_Step ==
    /\ lastOp' = "t_connect" => reconnectAttempts' = 0
    /\ (lastOp' = "t_connect_error" /\ socket # Null /\ socket' = Null) =>
          rowErrors' > maxReconnectAttempts

\* C33: the counter is the number of connect-errors since the last connect
\* event, and the channel gives up only when that number passes the maximum.
C33_ResetOnConnect ==
    /\ [](reconnectAttempts = rowErrors)
    /\ [][C33_Step]_vars

\* connect-errors before and after a connect event are more than
\* maxReconnectAttempts together, and the handle is still held
C33_Witness ==
    /\ lastOp = "t_connect_error"
    /\ socket # Null
    /\ priorErrors > 0
    /\ rowErrors > 0
    /\ priorErrors + rowErrors > maxReconnectAttempts

(***************************************************************************)
(* Claims about the attempt counter and the handle.                         *)
(***************************************************************************)
\* C34: a connect() or disconnect() call changes neither reconnectAttempts
\* nor any registered handler; and a connect-error handled while the counter
\* is already above maxReconnectAttempts, as it is on a connection made
\* after the channel gave up, clears the handle again at once.
C34_Step ==
    /\ lastOp' \in {"connect", "disconnect"} =>
          /\ reconnectAttempts' = reconnectAttempts
          /\ listeners' = listeners
    /\ (lastOp' = "t_connect_error" /\ reconnectAttempts > maxReconnectAttempts) =>
          /\ reconnectAttempts' = reconnectAttempts + 1
          /\ socket' = Null
          /\ ~connected'

\* C34: every connect() and disconnect() step keeps the counter and the
\* handlers, and a connect-error above the maximum gives up again.
C34_CounterSurvivesReconnect == [][C34_Step]_vars

\* the channel gave up on its first Socket at the sixth connect-error, and
\* on its second Socket at that Socket's first
C34_Witness ==
    /\ lastOp = "t_connect_error"
    /\ Len(transports) = 2
    /\ lastFrom = 2
    /\ socket = Null
    /\ reconnectAttempts = maxReconnectAttempts + 2
    /\ \E k \in SubKinds : listeners[k] # <<>>

\* C35: reconnectAttempts is 0 whenever the channel is connected; so it is 0
\* whenever a step schedules a timer of reconnect(), and the delay of every
\* such timer is reconnectDelay, 2000 ms.
C35_Step ==
    timers' > timers =>
        /\ connected
        /\ reconnectAttempts = 0
        /\ reconnectAttempts' = 0
        /\ lastDelay' = <<reconnectDelay, 1>>

\* C35: the counter is 0 while connected and every timer is scheduled with
\* reconnectDelay.
C35_BaseDelayOnly ==
    /\ [](connected => reconnectAttempts = 0)
    /\ [][C35_Step]_vars

\* the server's close of a later connection has scheduled a second timer,
\* the timer of an earlier connection still pending since a disconnect()
C35_Witness ==
    /\ lastOp = "t_disconnect"
    /\ timers = 2
    /\ staleTimers = 1
    /\ transports[lastFrom].budget = 0
    /\ lastDelay = <<reconnectDelay, 1>>

\* C36: whenever the channel is connected it holds a Socket, and that Socket
\* is open.
C36_ConnectedHoldsHandle == isConnectedFn(Ch) => (socket # Null /\ Held("open"))

\* the channel is connected on its second Socket, the handle of the first
\* having been cleared, and an event of the second has been dispatched
C36_Witness ==
    /\ connected
    /\ socket = 2
    /\ nullConnects = 2
    /\ lastFrom = 2
    /\ lastOp = "t_event"

(***************************************************************************)
(* Claims about the folds of the projector.                                 *)
(***************************************************************************)
\* C37: the step that handles an event of the Socket changes, of the
\* component's state, at most: the agents for an agent_update; the messages
\* and the active agent for an agent_message or agent_thinking; the
\* connections and the active agent for an agent_handover; and nothing for
\* an execution_started, execution_completed, execution_error or
\* system_message and for a connect-error.
C37_Step ==
    /\ lastOp' = "t_event" =>
          LET kind == out'[1].kind
          IN /\ Len(out') = 1
             /\ isConnected' = isConnected
             /\ kind = "agent_update" =>
                   UNCHANGED <<messages, connections, activeAgent>>
             /\ kind \in {"agent_message", "agent_thinking"} =>
                   UNCHANGED <<agents, connections>>
             /\ kind = "agent_handover" =>
                   UNCHANGED <<agents, messages>>
             /\ kind \in {"execution_started", "execution_completed",
                          "execution_error", "system_message"} =>
                   UNCHANGED projVars
    /\ lastOp' = "t_connect_error" => UNCHANGED projVars

\* C37: every step that handles an event changes only the part of the
\* state that belongs to the kind of the event.
C37_FoldsOwnPart == [][C37_Step]_vars

\* every part of the state has been set by its event, the active agent last
\* by a message of A, and an agent_update of B has left it at A
C37_Witness ==
    /\ lastOp = "t_event"
    /\ out[1].kind = "agent_update"
    /\ out[1].data.id = "B"
    /\ out[1].invoked = <<Me>>
    /\ Len(agents) = 2
    /\ messages # <<>>
    /\ connections # <<>>
    /\ activeAgent = "A"

\* the ids of a list of agents, in its order
IdsInOrder(list) == [i \in 1..Len(list) |-> list[i].id]

\* C38: an agent_update for an id the agents have puts the record in the
\* place of the one with that id and changes nothing else, and for a new id
\* puts the record at the end; so the ids that were there keep their order
\* and their places and the list gets no shorter; and after an update for an
\* id the agents have, calculatePositions gives every agent the position it
\* gave before.
C38_Step ==
    updLog' # updLog =>
        LET data == updLog'[Len(updLog')]
            k == findIndex(agents, data.id)
        IN /\ Len(agents') >= Len(agents)
           /\ SubSeq(IdsInOrder(agents'), 1, Len(agents)) = IdsInOrder(agents)
           /\ k > 0 =>
                 /\ agents' = [agents EXCEPT ![k] = data]
                 /\ calculatePositions(agents', svgRef') =
                       calculatePositions(agents, svgRef)
           /\ k = 0 =>
                 /\ Len(agents') = Len(agents) + 1
                 /\ agents'[Len(agents')] = data

\* C38: every agent_update step keeps the order of the agents and, for a
\* known id, every position.
C38_StableOrder == [][C38_Step]_vars

\* the first of three agents has been updated in place, and the render
\* after the update has every agent where the render of the three, idle,
\* would have it
C38_Witness ==
    /\ updLog # <<>>
    /\ Len(agents) = 3
    /\ agents[1] = updLog[Len(updLog)]
    /\ agents[1].status = "thinking"
    /\ IdsInOrder(agents) = <<"A", "B", "C">>
    /\ drawn.rendered
    /\ drawn.agents = agents
    /\ drawn.positions = calculatePositions(AgentsOf(<<"A", "B", "C">>), svgRef)

====
